---------------------------- MODULE Spec2Model ----------------------------
(***************************************************************************)
(* A model of the Automatice-Participatory configuration tool set:         *)
(*   - validate-config.js : the validator (validateConfiguration),         *)
(*   - auto-fix-config.js : the auto-fixer (class ConfigAutoFix),          *)
(*   - automate.js        : the orchestrator (main / runCommand).          *)
(* The three programs share one configuration file on disk and talk to     *)
(* each other through exit codes only.                                     *)
(***************************************************************************)
EXTENDS Integers, Sequences, FiniteSets, TLC

(***************************************************************************)
(* JavaScript values.  Every value is a record of one shape, so that any   *)
(* two values can be compared: t is the JS type, and b / n / s / a hold    *)
(* the payload of a boolean / number / string / array of strings.  A       *)
(* string is the sequence of its characters.                               *)
(***************************************************************************)
Undefined == [t |-> "undefined", b |-> FALSE, n |-> 0, s |-> <<>>, a |-> <<>>]
Bool(x)   == [t |-> "boolean",   b |-> x,     n |-> 0, s |-> <<>>, a |-> <<>>]
Num(k)    == [t |-> "number",    b |-> FALSE, n |-> k, s |-> <<>>, a |-> <<>>]
Str(cs)   == [t |-> "string",    b |-> FALSE, n |-> 0, s |-> cs,   a |-> <<>>]
Arr(ss)   == [t |-> "array",     b |-> FALSE, n |-> 0, s |-> <<>>, a |-> ss]

\* JS truthiness (ToBoolean): undefined, false, 0 and "" are falsy.
Truthy(v) ==
  CASE v.t = "undefined" -> FALSE
    [] v.t = "boolean"   -> v.b
    [] v.t = "number"    -> v.n # 0
    [] v.t = "string"    -> v.s # <<>>
    [] OTHER             -> TRUE

\* typeof v
TypeOf(v) == IF v.t = "array" THEN "object" ELSE v.t

(***************************************************************************)
(* Strings                                                                 *)
(***************************************************************************)
Digits   == {"0", "1", "2", "3", "4", "5", "6", "7", "8", "9"}
Lower    == {"a", "b", "c", "d", "e", "f", "g", "h", "i", "j", "k", "l", "m",
             "n", "o", "p", "q", "r", "s", "t", "u", "v", "w", "x", "y", "z"}
Upper    == {"Y", "N", "H"}
IsDigit(c) == c \in Digits
IsAlpha(c) == c \in Lower \cup Upper

\* String.prototype.toLowerCase, on the characters the model uses.
LowerChar(c) ==
  CASE c = "Y" -> "y"
    [] c = "N" -> "n"
    [] c = "H" -> "h"
    [] OTHER   -> c
toLowerCase(s) == [i \in 1..Len(s) |-> LowerChar(s[i])]

\* String.prototype.trim: drops leading and trailing white space.
RECURSIVE trimStart(_)
trimStart(s) == IF s # <<>> /\ Head(s) = " " THEN trimStart(Tail(s)) ELSE s
RECURSIVE trimEnd(_)
trimEnd(s) ==
  IF s # <<>> /\ s[Len(s)] = " " THEN trimEnd(SubSeq(s, 1, Len(s) - 1)) ELSE s
trim(s) == trimEnd(trimStart(s))

\* String.prototype.split(','): the pieces between the commas.
RECURSIVE split(_)
split(s) ==
  IF \A i \in 1..Len(s) : s[i] # ","
  THEN <<s>>
  ELSE LET i == CHOOSE k \in 1..Len(s) :
                  s[k] = "," /\ \A m \in 1..(k - 1) : s[m] # ","
       IN  <<SubSeq(s, 1, i - 1)>> \o split(SubSeq(s, i + 1, Len(s)))

\* Array.prototype.includes on an array of strings
includes(q, x) == \E i \in 1..Len(q) : q[i] = x

\* The literals of the source.
S_production  == <<"p", "r", "o", "d", "u", "c", "t", "i", "o", "n">>
S_staging     == <<"s", "t", "a", "g", "i", "n", "g">>
S_development == <<"d", "e", "v", "e", "l", "o", "p", "m", "e", "n", "t">>
S_debug       == <<"d", "e", "b", "u", "g">>
S_info        == <<"i", "n", "f", "o">>
S_warn        == <<"w", "a", "r", "n">>
S_error       == <<"e", "r", "r", "o", "r">>
S_star        == <<"*">>
S_y           == <<"y">>
S_http        == <<"h", "t", "t", "p">>
S_https       == <<"h", "t", "t", "p", "s">>
S_placeholder == <<"h", "t", "t", "p", "s", ":", "/", "/", "a", "p", "i", ".",
                   "e", "x", "a", "m", "p", "l", "e", ".", "c", "o", "m">>

(***************************************************************************)
(* new URL(input), without a base: the WHATWG parser on the characters the *)
(* model uses (letters, digits, ":", "/", ".", "*", "-", "+", " ").        *)
(*   - leading and trailing spaces are stripped;                           *)
(*   - a scheme (a letter, then letters, digits, "+", "-", ".") and ":"    *)
(*     must come first, or the parse fails (there is no base URL);         *)
(*   - after a special scheme (http, https, ws, wss, ftp) any slashes are  *)
(*     skipped and a host must follow, optionally with ":" and a port of   *)
(*     digits; an empty host or a space in the host fails;                 *)
(*   - after any other scheme the rest is kept as it is, but a space in    *)
(*     the host of "scheme://host" fails.                                  *)
(* The result is [ok, protocol]; protocol is the lower-case scheme plus    *)
(* ":" as url.protocol gives it.                                           *)
(***************************************************************************)
SpecialSchemes == {S_http, S_https, <<"w", "s">>, <<"w", "s", "s">>, <<"f", "t", "p">>}
IsSchemeChar(c) == IsAlpha(c) \/ IsDigit(c) \/ c \in {"+", "-", "."}

\* The index of the ":" ending the scheme, or 0 when the input has none.
SchemeEnd(s) ==
  IF s = <<>> \/ ~IsAlpha(s[1]) THEN 0
  ELSE LET stops == {i \in 2..Len(s) : ~IsSchemeChar(s[i])}
       IN  IF stops = {} THEN 0
           ELSE LET i == CHOOSE k \in stops : \A m \in stops : k <= m
                IN  IF s[i] = ":" THEN i ELSE 0

RECURSIVE skipSlashes(_)
skipSlashes(s) == IF s # <<>> /\ Head(s) = "/" THEN skipSlashes(Tail(s)) ELSE s

\* The authority: what precedes the first "/" of the rest.
Authority(s) ==
  LET cut == {i \in 1..Len(s) : s[i] = "/"}
  IN  IF cut = {} THEN s
      ELSE SubSeq(s, 1, (CHOOSE k \in cut : \A m \in cut : k <= m) - 1)

\* host[:port] is well-formed.
HostPortOk(auth) ==
  LET colons == {i \in 1..Len(auth) : auth[i] = ":"}
      hostEnd == IF colons = {} THEN Len(auth)
                 ELSE (CHOOSE k \in colons : \A m \in colons : k <= m) - 1
      host == SubSeq(auth, 1, hostEnd)
      port == SubSeq(auth, hostEnd + 2, Len(auth))
  IN  /\ host # <<>>
      /\ \A i \in 1..Len(host) : host[i] # " "
      /\ \A i \in 1..Len(port) : IsDigit(port[i])

ParseURL(input) ==
  LET s == trim(input)
      e == SchemeEnd(s)
      scheme == toLowerCase(SubSeq(s, 1, e - 1))
      rest == SubSeq(s, e + 1, Len(s))
  IN  IF e = 0 THEN [ok |-> FALSE, protocol |-> <<>>]
      ELSE IF scheme \in SpecialSchemes
           THEN [ok |-> HostPortOk(Authority(skipSlashes(rest))),
                 protocol |-> scheme \o <<":">>]
           ELSE IF Len(rest) >= 2 /\ rest[1] = "/" /\ rest[2] = "/"
                THEN [ok |-> LET a == Authority(SubSeq(rest, 3, Len(rest)))
                             IN  \A i \in 1..Len(a) : a[i] # " ",
                      protocol |-> scheme \o <<":">>]
                ELSE [ok |-> TRUE, protocol |-> scheme \o <<":">>]

(***************************************************************************)
(* The configuration document (JSON.parse of the file).  A section is an   *)
(* object or absent (present = FALSE, as config.section === undefined);    *)
(* the settings of a present section are JS values, Undefined when the     *)
(* key is not there.                                                       *)
(***************************************************************************)
NoPlatform == [present |-> FALSE, name |-> Undefined, version |-> Undefined,
               environment |-> Undefined]
NoGlobal   == [present |-> FALSE, enabled |-> Undefined, timezone |-> Undefined]
NoAuth     == [present |-> FALSE, sessionTimeout |-> Undefined,
               maxLoginAttempts |-> Undefined]
NoApi      == [present |-> FALSE, baseUrl |-> Undefined, timeout |-> Undefined]
NoLogging  == [present |-> FALSE, level |-> Undefined, enableFile |-> Undefined]
NoSecurity == [present |-> FALSE, corsEnabled |-> Undefined,
               allowedOrigins |-> Undefined, enableSSL |-> Undefined,
               enableHSTS |-> Undefined]
NoDatabase == [present |-> FALSE, enableLogging |-> Undefined]
NoSwitch   == [present |-> FALSE, enabled |-> Undefined]
NoPerformance == [present |-> FALSE, caching |-> NoSwitch, compression |-> NoSwitch]

\* {} : the section as an empty object.
EmptyObject(none) == [none EXCEPT !.present = TRUE]

(***************************************************************************)
(* validate-config.js                                                      *)
(***************************************************************************)
requiredSections_onlyPlatform == <<"platform">>
requiredSections  == <<"platform", "global">>
validEnvironments_withProd == <<S_production, S_staging, S_development,
                                <<"p", "r", "o", "d">>>>
validEnvironments == <<S_production, S_staging, S_development>>
validLevels       == <<S_debug, S_info, S_warn, S_error>>

\* String(v), as RegExp.prototype.test applies it to its argument.
RECURSIVE NatToString(_)
NatToString(k) ==
  LET d == <<"0", "1", "2", "3", "4", "5", "6", "7", "8", "9">>
  IN  IF k < 10 THEN <<d[k + 1]>> ELSE NatToString(k \div 10) \o <<d[(k % 10) + 1]>>
JSString(v) ==
  CASE v.t = "string"  -> v.s
    [] v.t = "number"  -> IF v.n < 0 THEN <<"-">> \o NatToString(-v.n)
                          ELSE NatToString(v.n)
    [] v.t = "boolean" -> IF v.b THEN <<"t", "r", "u", "e">>
                          ELSE <<"f", "a", "l", "s", "e">>
    [] OTHER           -> <<"u", "n", "d", "e", "f", "i", "n", "e", "d">>

\* One step of the regular expression: the positions after \d+ from position i,
\* and after \. from position i (a position is the index of the next character).
AfterDigits(s, i) ==
  {j \in (i + 1)..(Len(s) + 1) : \A k \in i..(j - 1) : IsDigit(s[k])}
AfterDot(s, i) == IF i <= Len(s) /\ s[i] = "." THEN {i + 1} ELSE {}

\* The expression without its "$": /^\d+\.\d+\.\d+/.test(s).
versionRegexTest_unanchored(s) ==
  LET p1 == AfterDigits(s, 1)
      p2 == UNION {AfterDot(s, i) : i \in p1}
      p3 == UNION {AfterDigits(s, i) : i \in p2}
      p4 == UNION {AfterDot(s, i) : i \in p3}
      p5 == UNION {AfterDigits(s, i) : i \in p4}
  IN  p5 # {}

\* /^\d+\.\d+\.\d+$/.test(s): "^" is position 1 and "$" the end of the input.
versionRegexTest(s) ==
  LET p1 == AfterDigits(s, 1)
      p2 == UNION {AfterDot(s, i) : i \in p1}
      p3 == UNION {AfterDigits(s, i) : i \in p2}
      p4 == UNION {AfterDot(s, i) : i \in p3}
      p5 == UNION {AfterDigits(s, i) : i \in p4}
  IN  (Len(s) + 1) \in p5

\* requiredSections.filter(section => !config[section])
SectionPresent(config, section) ==
  IF section = "platform" THEN config.platform.present ELSE config.global.present
RECURSIVE MissingOf(_, _)
MissingOf(config, sections) ==
  IF sections = <<>> THEN <<>>
  ELSE (IF SectionPresent(config, Head(sections)) THEN <<>> ELSE <<Head(sections)>>)
       \o MissingOf(config, Tail(sections))
missingSections(config) == MissingOf(config, requiredSections)

\* The outcome of a run of the validator: its exit code, the message of the
\* error it reports ("" on a pass) and what the message names.
Passed             == [code |-> 0, message |-> "", names |-> <<>>]
Failed(msg, names) == [code |-> 1, message |-> msg, names |-> names]

\* The authentication checks (source lines 564-574).
authenticationError(config) ==
  LET auth == config.authentication
  IN  IF ~auth.present THEN ""
      ELSE IF Truthy(auth.sessionTimeout) /\ auth.sessionTimeout.n < 60
           THEN "sessionTimeout must be at least 60 seconds"
      ELSE IF Truthy(auth.maxLoginAttempts)
              /\ (auth.maxLoginAttempts.n < 1 \/ auth.maxLoginAttempts.n > 10)
           THEN "maxLoginAttempts must be between 1 and 10"
      ELSE ""

\* The api checks (source lines 577-590).
apiError(config) ==
  LET api == config.api
  IN  IF ~api.present THEN ""
      ELSE IF Truthy(api.baseUrl) /\ ~ParseURL(api.baseUrl.s).ok
           THEN "api.baseUrl must be a valid URL"
      ELSE IF Truthy(api.timeout) /\ api.timeout.n < 1000
           THEN "api.timeout must be at least 1000ms"
      ELSE ""

\* The logging checks (source lines 593-600).
loggingError(config) ==
  LET logging == config.logging
  IN  IF ~logging.present THEN ""
      ELSE IF Truthy(logging.level) /\ ~includes(validLevels, logging.level.s)
           THEN "Invalid logging level"
      ELSE ""

\* The platform checks (source lines 536-551).
platformError(config) ==
  LET platform == config.platform
  IN  IF ~Truthy(platform.name) \/ ~Truthy(platform.version)
         \/ ~Truthy(platform.environment)
      THEN Failed("Platform section is missing required fields", <<>>)
      ELSE IF ~versionRegexTest(JSString(platform.version))
      THEN Failed("Platform version must follow semantic versioning (e.g., 1.0.0)", <<>>)
      ELSE IF ~(platform.environment.t = "string"
                /\ includes(validEnvironments, platform.environment.s))
      THEN Failed("Invalid environment", <<JSString(platform.environment)>>)
      ELSE Passed

\* The global checks (source lines 555-560).
globalError(config) ==
  IF TypeOf(config.global.enabled) # "boolean"
  THEN "global.enabled must be a boolean"
  ELSE IF ~Truthy(config.global.timezone) THEN "global.timezone is required"
  ELSE ""

\* validateConfiguration with the api checks before the authentication checks.
validateConfiguration_apiFirst(f) ==
  IF ~f.exists THEN Failed("Configuration file not found", <<>>)
  ELSE IF ~f.parses THEN Failed("Invalid JSON", <<>>)
  ELSE LET config == f.doc IN
    IF missingSections(config) # <<>>
    THEN Failed("Missing required sections", missingSections(config))
    ELSE IF platformError(config).code # 0 THEN platformError(config)
    ELSE IF globalError(config) # "" THEN Failed(globalError(config), <<>>)
    ELSE IF apiError(config) # "" THEN Failed(apiError(config), <<>>)
    ELSE IF authenticationError(config) # ""
         THEN Failed(authenticationError(config), <<>>)
    ELSE IF loggingError(config) # "" THEN Failed(loggingError(config), <<>>)
    ELSE Passed

\* validateConfiguration and the run block: the first failing check throws and
\* the process exits 1 with that message; exit 0 when none fails.
validateConfiguration(f) ==
  IF ~f.exists THEN Failed("Configuration file not found", <<>>)
  ELSE IF ~f.parses THEN Failed("Invalid JSON", <<>>)
  ELSE LET config == f.doc IN
    IF missingSections(config) # <<>>
    THEN Failed("Missing required sections", missingSections(config))
    ELSE IF platformError(config).code # 0 THEN platformError(config)
    ELSE IF globalError(config) # "" THEN Failed(globalError(config), <<>>)
    ELSE IF authenticationError(config) # ""
         THEN Failed(authenticationError(config), <<>>)
    ELSE IF apiError(config) # "" THEN Failed(apiError(config), <<>>)
    ELSE IF loggingError(config) # "" THEN Failed(loggingError(config), <<>>)
    ELSE Passed

(***************************************************************************)
(* auto-fix-config.js: class ConfigAutoFix.  The object is the record      *)
(* [config, fixes, warnings, prompts]: this.config, this.fixes,            *)
(* this.warnings, and the number of questions this.prompt has asked.       *)
(* Each rule is an operator from the object (and the answers typed at its  *)
(* prompts) to the object after the rule.                                  *)
(***************************************************************************)
Fix(field, from, to) == [field |-> field, from |-> from, to |-> to]
Warning(type, field, current) == [type |-> type, field |-> field, current |-> current]

\* new ConfigAutoFix(...) after loadConfig: the constructor's fields.
ConfigAutoFix(config) ==
  [config |-> config, fixes |-> <<>>, warnings |-> <<>>, prompts |-> 0]

\* analyzeAndFix, "Ensure required sections exist" (source lines 80-88).
ensureSections(config) ==
  LET perf == IF config.performance.present THEN config.performance
              ELSE EmptyObject(NoPerformance)
  IN  [config EXCEPT
        !.platform = IF @.present THEN @ ELSE EmptyObject(NoPlatform),
        !.global   = IF @.present THEN @ ELSE EmptyObject(NoGlobal),
        !.api      = IF @.present THEN @ ELSE EmptyObject(NoApi),
        !.security = IF @.present THEN @ ELSE EmptyObject(NoSecurity),
        !.database = IF @.present THEN @ ELSE EmptyObject(NoDatabase),
        !.logging  = IF @.present THEN @ ELSE EmptyObject(NoLogging),
        !.performance =
           [perf EXCEPT
              !.caching = IF @.present THEN @ ELSE EmptyObject(NoSwitch),
              !.compression = IF @.present THEN @ ELSE EmptyObject(NoSwitch)]]

\* fixPlaceholderApiUrl without the URL check of its answer (new URL(newUrl)).
fixPlaceholderApiUrl_noUrlCheck(self, interactive, newUrl, proceed) ==
  IF ~(self.config.api.present /\ self.config.api.baseUrl = Str(S_placeholder))
  THEN self
  ELSE
    LET warned == [self EXCEPT !.warnings =
                     Append(@, Warning("placeholder", "api.baseUrl",
                                       self.config.api.baseUrl))]
        asked == [warned EXCEPT !.prompts = @ + 1]
    IN  IF ~interactive THEN warned
        ELSE IF ~(newUrl # <<>> /\ trim(newUrl) # <<>>) THEN asked
        ELSE [asked EXCEPT
                !.config.api.baseUrl = Str(trim(newUrl)),
                !.fixes = Append(@, Fix("api.baseUrl", Str(S_placeholder),
                                        Str(trim(newUrl))))]

\* fixPlaceholderApiUrl that applies the answer whatever the confirmation says.
fixPlaceholderApiUrl_anyConfirmation(self, interactive, newUrl, proceed) ==
  IF ~(self.config.api.present /\ self.config.api.baseUrl = Str(S_placeholder))
  THEN self
  ELSE
    LET warned == [self EXCEPT !.warnings =
                     Append(@, Warning("placeholder", "api.baseUrl",
                                       self.config.api.baseUrl))]
        asked == [warned EXCEPT !.prompts = @ + 1]
        url == ParseURL(newUrl)
        needConfirm == /\ self.config.platform.environment = Str(S_production)
                       /\ url.protocol # S_https \o <<":">>
        asked2 == IF needConfirm THEN [asked EXCEPT !.prompts = @ + 1] ELSE asked
    IN  IF ~interactive THEN warned
        ELSE IF ~(newUrl # <<>> /\ trim(newUrl) # <<>>) THEN asked
        ELSE IF ~url.ok THEN asked
        ELSE [asked2 EXCEPT
                !.config.api.baseUrl = Str(trim(newUrl)),
                !.fixes = Append(@, Fix("api.baseUrl", Str(S_placeholder),
                                        Str(trim(newUrl))))]

\* fixPlaceholderApiUrl; newUrl and proceed are the answers to its prompts.
fixPlaceholderApiUrl(self, interactive, newUrl, proceed) ==
  IF ~(self.config.api.present /\ self.config.api.baseUrl = Str(S_placeholder))
  THEN self
  ELSE
    LET warned == [self EXCEPT !.warnings =
                     Append(@, Warning("placeholder", "api.baseUrl",
                                       self.config.api.baseUrl))]
        asked == [warned EXCEPT !.prompts = @ + 1]
        url == ParseURL(newUrl)
        needConfirm == /\ self.config.platform.environment = Str(S_production)
                       /\ url.protocol # S_https \o <<":">>
        asked2 == IF needConfirm THEN [asked EXCEPT !.prompts = @ + 1] ELSE asked
    IN  IF ~interactive THEN warned
        ELSE IF ~(newUrl # <<>> /\ trim(newUrl) # <<>>) THEN asked
        ELSE IF ~url.ok THEN asked
        ELSE IF needConfirm /\ toLowerCase(proceed) # S_y THEN asked2
        ELSE [asked2 EXCEPT
                !.config.api.baseUrl = Str(trim(newUrl)),
                !.fixes = Append(@, Fix("api.baseUrl", Str(S_placeholder),
                                        Str(trim(newUrl))))]

\* allowedOrigins.includes('*'), of an array or of a string.
includesStar(v) ==
  CASE v.t = "array"  -> includes(v.a, S_star)
    [] v.t = "string" -> \E i \in 1..Len(v.s) : v.s[i] = "*"
    [] OTHER          -> FALSE

\* response.split(',').map(o => o.trim()).filter(o => o)
RECURSIVE trimmedNonEmpty(_)
trimmedNonEmpty(q) ==
  IF q = <<>> THEN <<>>
  ELSE (IF trim(Head(q)) # <<>> THEN <<trim(Head(q))>> ELSE <<>>)
       \o trimmedNonEmpty(Tail(q))
\* The loop over the origins without its test of the protocol.
RECURSIVE validOriginsOf_anyScheme(_)
validOriginsOf_anyScheme(q) ==
  IF q = <<>> THEN <<>>
  ELSE (IF ParseURL(Head(q)).ok THEN <<Head(q)>> ELSE <<>>)
       \o validOriginsOf_anyScheme(Tail(q))

\* The loop over the origins (source lines 175-187).
RECURSIVE validOriginsOf(_)
validOriginsOf(q) ==
  IF q = <<>> THEN <<>>
  ELSE (IF ParseURL(Head(q)).ok
           /\ ParseURL(Head(q)).protocol \in {S_https \o <<":">>, S_http \o <<":">>}
        THEN <<Head(q)>> ELSE <<>>)
       \o validOriginsOf(Tail(q))

\* The guard with allowedOrigins[0] === '*' in place of includes('*').
wildcardCorsDetected_firstOnly(security) ==
  /\ security.present
  /\ Truthy(security.corsEnabled)
  /\ Truthy(security.allowedOrigins)
  /\ security.allowedOrigins.t = "array"
  /\ Len(security.allowedOrigins.a) > 0
  /\ security.allowedOrigins.a[1] = S_star

\* The guard of fixWildcardCors (source lines 153-156).
wildcardCorsDetected(security) ==
  /\ security.present
  /\ Truthy(security.corsEnabled)
  /\ Truthy(security.allowedOrigins)
  /\ includesStar(security.allowedOrigins)

\* fixWildcardCors; response is the answer to its prompt.
fixWildcardCors(self, interactive, response) ==
  LET security == self.config.security
  IN  IF ~wildcardCorsDetected(security)
      THEN self
      ELSE IF self.config.platform.environment # Str(S_production) THEN self
      ELSE
        LET warned == [self EXCEPT !.warnings =
                         Append(@, Warning("security", "security.allowedOrigins",
                                           security.allowedOrigins))]
            asked == [warned EXCEPT !.prompts = @ + 1]
            validOrigins == validOriginsOf(trimmedNonEmpty(split(response)))
        IN  IF ~interactive THEN warned
            ELSE IF ~(response # <<>> /\ trim(response) # <<>>) THEN asked
            ELSE IF Len(validOrigins) = 0 THEN asked
            ELSE [asked EXCEPT
                    !.config.security.allowedOrigins = Arr(validOrigins),
                    !.fixes = Append(@, Fix("security.allowedOrigins",
                                            Arr(<<S_star>>), Arr(validOrigins)))]

\* fixEnvironmentSettings with the assignment of source line 217 left out.
fixEnvironmentSettings_noAssign(self) ==
  IF self.config.platform.environment # Str(S_development) THEN self
  ELSE
    LET s1 == IF self.config.database.present
                 /\ self.config.database.enableLogging = Bool(FALSE)
              THEN [self EXCEPT
                      !.fixes = Append(@, Fix("database.enableLogging",
                                              Bool(FALSE), Bool(TRUE)))]
              ELSE self
    IN  IF s1.config.logging.present /\ s1.config.logging.level # Str(S_debug)
        THEN [s1 EXCEPT
                !.config.logging.level = Str(S_debug),
                !.fixes = Append(@, Fix("logging.level", s1.config.logging.level,
                                        Str(S_debug)))]
        ELSE s1

\* fixEnvironmentSettings without its test of the environment (source line 212).
fixEnvironmentSettings_anyEnvironment(self) ==
  LET s1 == IF self.config.database.present
               /\ self.config.database.enableLogging = Bool(FALSE)
            THEN [self EXCEPT
                    !.config.database.enableLogging = Bool(TRUE),
                    !.fixes = Append(@, Fix("database.enableLogging",
                                            Bool(FALSE), Bool(TRUE)))]
            ELSE self
  IN  IF s1.config.logging.present /\ s1.config.logging.level # Str(S_debug)
      THEN [s1 EXCEPT
              !.config.logging.level = Str(S_debug),
              !.fixes = Append(@, Fix("logging.level", s1.config.logging.level,
                                      Str(S_debug)))]
      ELSE s1

\* fixEnvironmentSettings
fixEnvironmentSettings(self) ==
  IF self.config.platform.environment # Str(S_development) THEN self
  ELSE
    LET s1 == IF self.config.database.present
                 /\ self.config.database.enableLogging = Bool(FALSE)
              THEN [self EXCEPT
                      !.config.database.enableLogging = Bool(TRUE),
                      !.fixes = Append(@, Fix("database.enableLogging",
                                              Bool(FALSE), Bool(TRUE)))]
              ELSE self
    IN  IF s1.config.logging.present /\ s1.config.logging.level # Str(S_debug)
        THEN [s1 EXCEPT
                !.config.logging.level = Str(S_debug),
                !.fixes = Append(@, Fix("logging.level", s1.config.logging.level,
                                        Str(S_debug)))]
        ELSE s1

\* fixProductionSecurity
fixProductionSecurity(self) ==
  IF self.config.platform.environment # Str(S_production) THEN self
  ELSE
    LET s1 == IF self.config.security.present
                 /\ self.config.security.enableSSL = Bool(FALSE)
              THEN [self EXCEPT
                      !.config.security.enableSSL = Bool(TRUE),
                      !.fixes = Append(@, Fix("security.enableSSL",
                                              Bool(FALSE), Bool(TRUE)))]
              ELSE self
        s2 == IF s1.config.security.present
                 /\ s1.config.security.enableHSTS = Bool(FALSE)
              THEN [s1 EXCEPT
                      !.config.security.enableHSTS = Bool(TRUE),
                      !.fixes = Append(@, Fix("security.enableHSTS",
                                              Bool(FALSE), Bool(TRUE)))]
              ELSE s1
    IN  IF s2.config.database.present
           /\ s2.config.database.enableLogging = Bool(TRUE)
        THEN [s2 EXCEPT
                !.config.database.enableLogging = Bool(FALSE),
                !.fixes = Append(@, Fix("database.enableLogging",
                                        Bool(TRUE), Bool(FALSE)))]
        ELSE s2

\* !enabled in place of enabled === false.
explicitlyDisabled_falsy(v) == ~Truthy(v)

\* enabled === false (source lines 296 and 308).
explicitlyDisabled(v) == v = Bool(FALSE)

\* optimizePerformanceSettings
optimizePerformanceSettings(self) ==
  LET s1 == IF self.config.performance.present
               /\ self.config.performance.caching.present
               /\ explicitlyDisabled(self.config.performance.caching.enabled)
            THEN [self EXCEPT
                    !.config.performance.caching.enabled = Bool(TRUE),
                    !.fixes = Append(@, Fix("performance.caching.enabled",
                                            Bool(FALSE), Bool(TRUE)))]
            ELSE self
  IN  IF s1.config.performance.present
         /\ s1.config.performance.compression.present
         /\ explicitlyDisabled(s1.config.performance.compression.enabled)
      THEN [s1 EXCEPT
              !.config.performance.compression.enabled = Bool(TRUE),
              !.fixes = Append(@, Fix("performance.compression.enabled",
                                      Bool(FALSE), Bool(TRUE)))]
      ELSE s1

\* fixLoggingSettings: whether the rule calls fs.mkdirSync.
needsLogDirectory(self, dirExists) ==
  self.config.logging.present /\ Truthy(self.config.logging.enableFile) /\ ~dirExists

\* run()'s return value once nothing has thrown (source line 58).
runResult(self) == Len(self.fixes) = 0 /\ Len(self.warnings) = 0

(***************************************************************************)
(* The state: the file system, the orchestrator (automate.js main) and the *)
(* auto-fixer child process.  The validator child runs to its exit in one  *)
(* step (it is synchronous and asks nothing).                              *)
(***************************************************************************)
VARIABLES
  file,           \* liveplatform.config.json: [exists, parses, doc]
  logDirExists,   \* fs.existsSync of the configured log directory
  file0,          \* the file as it was when the orchestrator started (history)
  skipFix,        \* --validate-only
  noInteractive,  \* --no-interactive
  configArg,      \* the path given with --config, NoPath when none is given
  pc,             \* where main() of automate.js is
  validateCode,   \* exit code of step 1, -1 before it
  fixCode,        \* exit code of step 2, -1 before it
  revalidateCode, \* exit code of step 3, -1 before it
  exitCode,       \* the orchestrator's own exit code, -1 while it runs
  validation,     \* the outcome of the latest validator run
  validatedFile,  \* the file that run read (history)
  steps,          \* the child processes spawned so far, in order (history)
  spawnFailed,    \* a spawn has failed (history)
  fpc,            \* where the auto-fixer process is
  interactive,    \* this.interactive of the auto-fixer
  fixer,          \* the ConfigAutoFix object
  writes,         \* successful fs.writeFileSync calls of the auto-fixer
  saveAnswer,     \* [asked, answer]: the save prompt and its answer (history)
  ruleAnswers,    \* [newUrl, proceed, origins], each [asked, answer]: the
                  \* questions the rules put and their answers (history)
  runLog          \* [mkdirFailed, writeFailed, caught]: the file-system errors
                  \* of the auto-fixer's run and whether run() went to its
                  \* catch branch (history)

vars == <<file, logDirExists, file0, skipFix, noInteractive, configArg, pc,
          validateCode,
          fixCode, revalidateCode, exitCode, validation, validatedFile, steps,
          spawnFailed, fpc, interactive, fixer, writes, saveAnswer,
          ruleAnswers, runLog>>

orchVars  == <<skipFix, noInteractive, configArg, pc, validateCode,
               fixCode, revalidateCode,
               exitCode, validation, validatedFile, steps, spawnFailed>>
fixerVars == <<fpc, interactive, fixer, writes, saveAnswer, ruleAnswers,
               runLog>>

\* The configuration file the tools default to (validate-config.js,
\* path.join(__dirname, 'liveplatform.config.json'); auto-fix-config.js,
\* './liveplatform.config.json'), and a path of the operator's own.
DEFAULT_CONFIG == "liveplatform.config.json"
CUSTOM_CONFIG  == "custom-config.json"
NoPath         == ""

\* The options the tools are started with; the test arg.startsWith('--').
Options == {"--validate-only", "--no-interactive", "--interactive", "--config",
            "--help"}
startsWithDashes(arg) == arg \in Options

\* The file validate-config.js validates, given its arguments: always
\* path.join(__dirname, 'liveplatform.config.json').
validatorConfigPath(args) == DEFAULT_CONFIG

\* The file auto-fix-config.js works on, given its arguments:
\* args.find(arg => !arg.startsWith('--')) || './liveplatform.config.json'.
RECURSIVE fixerConfigPath(_)
fixerConfigPath(args) ==
  IF args = <<>> THEN DEFAULT_CONFIG
  ELSE IF ~startsWithDashes(Head(args)) THEN Head(args)
  ELSE fixerConfigPath(Tail(args))

VALIDATOR == "validate-config.js"

\* The arguments of the validator (source lines 65 and 86).
validateArgs == <<VALIDATOR>>
AUTOFIX   == "auto-fix-config.js"

\* main that waits on after step 1 unless it may return at once.
afterStep1_waits(code, skip) ==
  IF code = 0 /\ skip THEN "done" ELSE "waiting"

\* main of automate.js after step 1 (source lines 67-72 and 104): where it goes
\* on, given the validator's exit code and --validate-only.
afterStep1_skipWhenValid(code, skip) ==
  IF code = 0 THEN "done" ELSE IF ~skip THEN "step2" ELSE "done"
afterStep1(code, skip) ==
  IF code = 0 /\ skip THEN "done" ELSE IF ~skip THEN "step2" ELSE "done"

\* The arguments of the auto-fixer (source line 78).
fixArgs_notForwarded(noInter) == <<AUTOFIX>>
fixArgs(noInter) ==
  IF noInter THEN <<AUTOFIX, "--no-interactive">> ELSE <<AUTOFIX>>

\* auto-fix-config.js main (source line 403, and the constructor, line 32).
interactiveOf(args) == ~includes(args, "--no-interactive")

\* The orchestrator's result after step 3 (source lines 93-101).
finalExitCode_allSteps(vc, fc, rc) == IF rc = 0 /\ fc = 0 THEN 0 ELSE 1
finalExitCode(vc, fc, rc) == IF rc = 0 THEN 0 ELSE 1

\* ---- automate.js ----

\* Step 1 (source lines 65-72 and 104): spawn the validator, await its close,
\* then return 0 under --validate-only or go on to step 2.  A spawn that fails
\* rejects the promise and main's catch returns 1.
Validate ==
  /\ pc = "step1"
  /\ \E spawned \in BOOLEAN :
       IF ~spawned
       THEN /\ pc' = "done" /\ exitCode' = 1
            /\ spawnFailed' = TRUE
            /\ UNCHANGED <<validateCode, validation, validatedFile, steps>>
       ELSE /\ validation' = validateConfiguration(file)
            /\ validatedFile' = file
            /\ validateCode' = validateConfiguration(file).code
            /\ steps' = Append(steps, VALIDATOR)
            /\ pc' = afterStep1(validateConfiguration(file).code, skipFix)
            /\ exitCode' =
                 IF afterStep1(validateConfiguration(file).code, skipFix) = "done"
                 THEN 0 ELSE exitCode
            /\ UNCHANGED spawnFailed
  /\ UNCHANGED <<file, logDirExists, file0, skipFix, noInteractive, configArg,
                 fixCode,
                 revalidateCode, fixerVars>>

\* Step 2 (source lines 78-79): spawn the auto-fixer, with --no-interactive
\* forwarded; auto-fix-config.js main builds the ConfigAutoFix object.
StartFix ==
  /\ pc = "step2"
  /\ \E spawned \in BOOLEAN :
       IF ~spawned
       THEN /\ pc' = "done" /\ exitCode' = 1
            /\ spawnFailed' = TRUE
            /\ UNCHANGED <<fpc, interactive, steps>>
       ELSE /\ pc' = "fixing" /\ fpc' = "load"
            /\ interactive' = interactiveOf(fixArgs(noInteractive))
            /\ steps' = Append(steps, AUTOFIX)
            /\ UNCHANGED <<exitCode, spawnFailed>>
  /\ UNCHANGED <<file, logDirExists, file0, skipFix, noInteractive, configArg,
                 validateCode,
                 fixCode, revalidateCode, validation, validatedFile, fixer,
                 writes, saveAnswer, ruleAnswers, runLog>>

\* The auto-fixer has exited: runCommand resolves with its code.
FixClosed ==
  /\ pc = "fixing"
  /\ fpc \in {"exit0", "exit1"}
  /\ fixCode' = IF fpc = "exit0" THEN 0 ELSE 1
  /\ pc' = "step3"
  /\ fpc' = "idle"
  /\ UNCHANGED <<file, logDirExists, file0, skipFix, noInteractive, configArg,
                 validateCode,
                 revalidateCode, exitCode, validation, validatedFile, steps,
                 spawnFailed, interactive, fixer, writes, saveAnswer,
                 ruleAnswers, runLog>>

\* Step 3 (source lines 86-101): validate again and report.
Revalidate ==
  /\ pc = "step3"
  /\ \E spawned \in BOOLEAN :
       IF ~spawned
       THEN /\ exitCode' = 1
            /\ spawnFailed' = TRUE
            /\ UNCHANGED <<revalidateCode, validation, validatedFile, steps>>
       ELSE /\ validation' = validateConfiguration(file)
            /\ validatedFile' = file
            /\ revalidateCode' = validateConfiguration(file).code
            /\ steps' = Append(steps, VALIDATOR)
            /\ exitCode' = finalExitCode(validateCode, fixCode,
                                         validateConfiguration(file).code)
            /\ UNCHANGED spawnFailed
  /\ pc' = "done"
  /\ UNCHANGED <<file, logDirExists, file0, skipFix, noInteractive, configArg,
                 validateCode,
                 fixCode, fixerVars>>

\* ---- auto-fix-config.js ----

\* loadConfig that never throws.
loadConfig_noThrow(f) == TRUE

\* loadConfig (source lines 65-74) returns, rather than throws: the file is
\* there and holds JSON.
loadConfig(f) == f.exists /\ f.parses

\* run(): loadConfig, which throws on a missing or malformed file (run's catch
\* then returns false and main exits 1), and the start of analyzeAndFix.
LoadConfig ==
  /\ fpc = "load"
  /\ IF loadConfig(file)
     THEN /\ fixer' = ConfigAutoFix(ensureSections(file.doc))
          /\ fpc' = "fixPlaceholderApiUrl"
          /\ UNCHANGED runLog
     ELSE /\ fpc' = "exit1"
          /\ runLog' = [runLog EXCEPT !.caught = TRUE]
          /\ UNCHANGED fixer
  /\ UNCHANGED <<file, logDirExists, file0, orchVars, interactive, writes,
                 saveAnswer, ruleAnswers>>

\* What the operator may type at a prompt.
S_b_https == <<"h", "t", "t", "p", "s", ":", "/", "/", "b", ".", "i", "o">>
S_b_http  == <<"h", "t", "t", "p", ":", "/", "/", "b", ".", "i", "o">>
S_b_ftp   == <<"f", "t", "p", ":", "/", "/", "b", ".", "i", "o">>
S_b_bare  == <<"b", ".", "i", "o">>
UrlAnswers     == {<<>>, <<" ">>, S_b_https, S_b_http, S_b_bare,
                   <<" ">> \o S_b_https \o <<" ">>}
ConfirmAnswers == {<<"y">>, <<"Y">>, <<"n">>, <<>>}
OriginAnswers  == {<<>>, <<" ">>, S_b_https, S_star, S_b_ftp, S_b_bare,
                   S_b_https \o <<",">> \o S_star,
                   S_b_http \o <<",", " ">> \o S_b_https \o <<",">>,
                   S_b_ftp \o <<",">> \o S_b_http}

FixPlaceholderApiUrl ==
  /\ fpc = "fixPlaceholderApiUrl"
  /\ \E newUrl \in UrlAnswers, proceed \in ConfirmAnswers :
       LET after == fixPlaceholderApiUrl(fixer, interactive, newUrl, proceed)
           asked == after.prompts - fixer.prompts
       IN  /\ fixer' = after
           /\ ruleAnswers' =
                [ruleAnswers EXCEPT
                   !.newUrl = IF asked >= 1
                              THEN [asked |-> TRUE, answer |-> newUrl] ELSE @,
                   !.proceed = IF asked = 2
                               THEN [asked |-> TRUE, answer |-> proceed] ELSE @]
  /\ fpc' = "fixWildcardCors"
  /\ UNCHANGED <<file, logDirExists, file0, orchVars, interactive, writes,
                 saveAnswer, runLog>>

FixWildcardCors ==
  /\ fpc = "fixWildcardCors"
  /\ \E response \in OriginAnswers :
       LET after == fixWildcardCors(fixer, interactive, response)
       IN  /\ fixer' = after
           /\ ruleAnswers' =
                [ruleAnswers EXCEPT
                   !.origins = IF after.prompts > fixer.prompts
                               THEN [asked |-> TRUE, answer |-> response] ELSE @]
  /\ fpc' = "fixEnvironmentSettings"
  /\ UNCHANGED <<file, logDirExists, file0, orchVars, interactive, writes,
                 saveAnswer, runLog>>

FixEnvironmentSettings ==
  /\ fpc = "fixEnvironmentSettings"
  /\ fixer' = fixEnvironmentSettings(fixer)
  /\ fpc' = "fixProductionSecurity"
  /\ UNCHANGED <<file, logDirExists, file0, orchVars, interactive, writes,
                 saveAnswer, ruleAnswers, runLog>>

FixProductionSecurity ==
  /\ fpc = "fixProductionSecurity"
  /\ fixer' = fixProductionSecurity(fixer)
  /\ fpc' = "optimizePerformanceSettings"
  /\ UNCHANGED <<file, logDirExists, file0, orchVars, interactive, writes,
                 saveAnswer, ruleAnswers, runLog>>

OptimizePerformanceSettings ==
  /\ fpc = "optimizePerformanceSettings"
  /\ fixer' = optimizePerformanceSettings(fixer)
  /\ fpc' = "fixLoggingSettings"
  /\ UNCHANGED <<file, logDirExists, file0, orchVars, interactive, writes,
                 saveAnswer, ruleAnswers, runLog>>

\* fixLoggingSettings: fs.mkdirSync may fail; the failure is caught and logged.
FixLoggingSettings ==
  /\ fpc = "fixLoggingSettings"
  /\ \E mkdirOk \in BOOLEAN :
       /\ logDirExists' = IF needsLogDirectory(fixer, logDirExists) THEN mkdirOk
                          ELSE logDirExists
       /\ runLog' = IF needsLogDirectory(fixer, logDirExists) /\ ~mkdirOk
                    THEN [runLog EXCEPT !.mkdirFailed = TRUE] ELSE runLog
  /\ fpc' = "saveConfig"
  /\ UNCHANGED <<file, file0, orchVars, interactive, fixer, writes, saveAnswer,
                 ruleAnswers>>

\* Whether run() and saveConfig put the save question (source lines 54, 368-369).
asksToSave(self, inter) == Len(self.fixes) > 0 /\ inter

\* Whether saveConfig is called and gets to fs.writeFileSync (source lines 54
\* and 368-378), given the answer to the save question.
savesConfig_unasked(self, inter, response) == Len(self.fixes) > 0
savesConfig(self, inter, response) ==
  /\ Len(self.fixes) > 0
  /\ inter => toLowerCase(response) = S_y

\* The end of run() (source lines 51-62), saveConfig and main's process.exit:
\* the file is written when there are fixes and, in interactive mode, the answer
\* is 'y'; a write that fails throws, and run's catch returns false.
SaveConfig ==
  /\ fpc = "saveConfig"
  /\ \E response \in ConfirmAnswers, writeOk \in BOOLEAN :
       LET asks == asksToSave(fixer, interactive)
           saves == savesConfig(fixer, interactive, response)
       IN  /\ fixer' = IF asks THEN [fixer EXCEPT !.prompts = @ + 1] ELSE fixer
           /\ saveAnswer' = IF asks THEN [asked |-> TRUE, answer |-> response]
                            ELSE saveAnswer
           /\ IF saves /\ writeOk
              THEN /\ file' = [exists |-> TRUE, parses |-> TRUE, doc |-> fixer.config]
                   /\ writes' = writes + 1
              ELSE UNCHANGED <<file, writes>>
           /\ runLog' = IF saves /\ ~writeOk
                        THEN [runLog EXCEPT !.writeFailed = TRUE, !.caught = TRUE]
                        ELSE runLog
           /\ fpc' = IF saves /\ ~writeOk THEN "exit1"
                     ELSE IF runResult(fixer) THEN "exit0" ELSE "exit1"
  /\ UNCHANGED <<logDirExists, file0, orchVars, interactive, ruleAnswers>>

(***************************************************************************)
(* The configurations explored.  BaseDoc is a correct production           *)
(* configuration; each family varies some of its settings.                 *)
(***************************************************************************)
MaxVersionLen == 6

S_a_https == <<"h", "t", "t", "p", "s", ":", "/", "/", "a", ".", "i", "o">>
S_a_http  == <<"h", "t", "t", "p", ":", "/", "/", "a", ".", "i", "o">>
S_a_bare  == <<"a", ".", "i", "o">>
S_prod    == <<"p", "r", "o", "d">>
S_verbose == <<"v", "e", "r", "b", "o", "s", "e">>

BaseDoc ==
  [platform |-> [present |-> TRUE, name |-> Str(<<"a", "p", "p">>),
                 version |-> Str(<<"1", ".", "0", ".", "0">>),
                 environment |-> Str(S_production)],
   global |-> [present |-> TRUE, enabled |-> Bool(TRUE),
               timezone |-> Str(<<"U", "T", "C">>)],
   authentication |-> [present |-> TRUE, sessionTimeout |-> Num(3600),
                       maxLoginAttempts |-> Num(5)],
   api |-> [present |-> TRUE, baseUrl |-> Str(S_a_https), timeout |-> Num(30000)],
   logging |-> [present |-> TRUE, level |-> Str(S_info), enableFile |-> Bool(FALSE)],
   security |-> [present |-> TRUE, corsEnabled |-> Bool(TRUE),
                 allowedOrigins |-> Arr(<<S_a_https>>),
                 enableSSL |-> Bool(TRUE), enableHSTS |-> Bool(TRUE)],
   database |-> [present |-> TRUE, enableLogging |-> Bool(FALSE)],
   performance |-> [present |-> TRUE,
                    caching |-> [present |-> TRUE, enabled |-> Bool(TRUE)],
                    compression |-> [present |-> TRUE, enabled |-> Bool(TRUE)]]]

Flags3       == {Undefined, Bool(TRUE), Bool(FALSE)}
Environments == {Str(S_production), Str(S_staging), Str(S_development)}

\* Every string over "1", "." and "a" of at most MaxVersionLen characters.
VersionStrings ==
  UNION {[1..n -> {"1", ".", "a"}] : n \in 0..MaxVersionLen}
VersionDocs ==
  {[BaseDoc EXCEPT !.platform.version = v] :
     v \in {Undefined, Num(1), Num(0), Str(<<"1", ".", "2", ".", "3">>),
            Str(<<"1", "0", ".", "2", "0", ".", "3", "0">>), Str(<<"1", ".", "2">>)}
           \cup {Str(s) : s \in VersionStrings}}

\* The required sections and their settings.
SectionDocs ==
  {[BaseDoc EXCEPT
      !.platform = IF p THEN [@ EXCEPT !.name = nm, !.environment = env]
                   ELSE NoPlatform,
      !.global = IF g THEN [@ EXCEPT !.enabled = en, !.timezone = tz] ELSE NoGlobal] :
     p \in BOOLEAN, g \in BOOLEAN,
     nm \in {Undefined, Str(<<"a", "p", "p">>)},
     env \in Environments \cup {Undefined, Str(<<>>), Str(S_prod),
                                Str(S_production \o <<" ">>)},
     en \in Flags3 \cup {Str(<<"t", "r", "u", "e">>)},
     tz \in {Undefined, Str(<<"U", "T", "C">>)}}

\* The optional sections the validator checks.
AuthDocs ==
  {[BaseDoc EXCEPT !.authentication =
      IF a THEN [present |-> TRUE, sessionTimeout |-> st, maxLoginAttempts |-> ml]
      ELSE NoAuth] :
     a \in BOOLEAN,
     st \in {Undefined, Num(0), Num(1), Num(59), Num(60), Num(3600)},
     ml \in {Undefined, Num(0), Num(1), Num(10), Num(11), Num(-1)}}
ApiDocs ==
  {[BaseDoc EXCEPT
      !.platform.environment = env,
      !.api = IF a THEN [present |-> TRUE, baseUrl |-> url, timeout |-> to]
              ELSE NoApi,
      !.logging.level = lv] :
     env \in {Str(S_production), Str(S_development)},
     a \in BOOLEAN,
     url \in {Undefined, Str(<<>>), Str(S_a_bare), Str(S_a_https), Str(S_a_http),
              Str(S_placeholder), Str(S_https \o <<":", "/", "/">>), Str(S_star)},
     to \in {Undefined, Num(0), Num(999), Num(1000), Num(30000)},
     lv \in {Undefined, Str(S_info), Str(S_verbose)}}

\* The settings the auto-fix rules read and write.
SecurityDocs ==
  {[BaseDoc EXCEPT
      !.platform.environment = env,
      !.security = IF s THEN [present |-> TRUE, corsEnabled |-> cors,
                              allowedOrigins |-> origins,
                              enableSSL |-> ssl, enableHSTS |-> hsts]
                   ELSE NoSecurity,
      !.database = IF s THEN [present |-> TRUE, enableLogging |-> dbl]
                   ELSE NoDatabase] :
     env \in Environments, s \in BOOLEAN,
     cors \in {Bool(TRUE), Bool(FALSE)},
     origins \in {Undefined, Arr(<<S_star>>), Arr(<<S_a_https>>),
                  Arr(<<S_a_https, S_star>>)},
     ssl \in Flags3, hsts \in Flags3, dbl \in Flags3}
PerformanceDocs ==
  {[BaseDoc EXCEPT
      !.platform.environment = env,
      !.logging = IF l THEN [present |-> TRUE, level |-> lv, enableFile |-> ef]
                  ELSE NoLogging,
      !.performance =
         IF p THEN [present |-> TRUE,
                    caching |-> IF c = Undefined THEN NoSwitch
                                ELSE [present |-> TRUE, enabled |-> c],
                    compression |-> [present |-> TRUE, enabled |-> z]]
         ELSE NoPerformance] :
     env \in Environments, l \in BOOLEAN, p \in BOOLEAN,
     lv \in {Undefined, Str(S_debug), Str(S_info)},
     ef \in {Bool(TRUE), Bool(FALSE)},
     c \in Flags3, z \in Flags3}

\* Documents that fail several of the validator's checks at once.
OrderDocs ==
  {[BaseDoc EXCEPT
      !.platform.version = v, !.platform.environment = env,
      !.global.enabled = en, !.global.timezone = tz,
      !.authentication.sessionTimeout = st,
      !.api.timeout = to, !.logging.level = lv] :
     v \in {Str(<<"1", ".", "0", ".", "0">>), Str(<<"1", ".", "0">>)},
     env \in {Str(S_staging), Str(S_prod)},
     en \in {Bool(TRUE), Undefined},
     tz \in {Str(<<"U", "T", "C">>), Undefined},
     st \in {Num(3600), Num(59)},
     to \in {Num(30000), Num(999)},
     lv \in {Str(S_info), Str(S_verbose)}}

\* The documents in the default file in the runs that are given a path.
PathDocs == AuthDocs

Docs == VersionDocs \cup SectionDocs \cup AuthDocs \cup ApiDocs
        \cup SecurityDocs \cup PerformanceDocs \cup OrderDocs

\* The file as the orchestrator may find it: a document, text that is not
\* JSON, or no file at all.
Files ==
  {[exists |-> TRUE, parses |-> TRUE, doc |-> d] : d \in Docs}
  \cup {[exists |-> TRUE, parses |-> FALSE, doc |-> BaseDoc],
        [exists |-> FALSE, parses |-> FALSE, doc |-> BaseDoc]}

Init ==
  /\ file \in Files
  /\ file0 = file
  /\ logDirExists \in BOOLEAN
  /\ skipFix \in BOOLEAN
  /\ noInteractive \in BOOLEAN
  /\ configArg \in IF file.doc \in PathDocs THEN {NoPath, CUSTOM_CONFIG}
                   ELSE {NoPath}
  /\ pc = "step1"
  /\ validateCode = -1 /\ fixCode = -1 /\ revalidateCode = -1 /\ exitCode = -1
  /\ validation = Passed
  /\ validatedFile = file
  /\ fpc = "idle"
  /\ interactive = TRUE
  /\ fixer = ConfigAutoFix(BaseDoc)
  /\ writes = 0
  /\ steps = <<>>
  /\ spawnFailed = FALSE
  /\ saveAnswer = [asked |-> FALSE, answer |-> <<>>]
  /\ ruleAnswers = [newUrl  |-> [asked |-> FALSE, answer |-> <<>>],
                    proceed |-> [asked |-> FALSE, answer |-> <<>>],
                    origins |-> [asked |-> FALSE, answer |-> <<>>]]
  /\ runLog = [mkdirFailed |-> FALSE, writeFailed |-> FALSE, caught |-> FALSE]

Next ==
  \/ Validate
  \/ StartFix
  \/ FixClosed
  \/ Revalidate
  \/ LoadConfig
  \/ FixPlaceholderApiUrl
  \/ FixWildcardCors
  \/ FixEnvironmentSettings
  \/ FixProductionSecurity
  \/ OptimizePerformanceSettings
  \/ FixLoggingSettings
  \/ SaveConfig

Spec == Init /\ [][Next]_vars

\* Every child the orchestrator has spawned closes or fails to start, and
\* every question is answered: no step that can be taken is put off for ever.
FairSpec == Spec /\ WF_vars(Next)

(***************************************************************************)
(* Vocabulary of the properties                                            *)
(***************************************************************************)
\* The validator has run, on a file that holds a JSON document.
Validated == validateCode # -1 /\ validatedFile.exists /\ validatedFile.parses
vdoc == validatedFile.doc

\* The orchestrator started on a file that holds a JSON document.
Parsed0 == file0.exists /\ file0.parses
doc0 == file0.doc

\* The auto-fixer is at one of the places in S, or has exited after a run.
AfterCors  == {"fixEnvironmentSettings", "fixProductionSecurity",
               "optimizePerformanceSettings", "fixLoggingSettings",
               "saveConfig", "exit0", "exit1"}
AfterEnv   == AfterCors \ {"fixEnvironmentSettings"}
AfterRules == {"saveConfig", "exit0", "exit1"}
FixerAt(S) == fpc \in S \/ (fpc = "idle" /\ fixCode # -1)

FixesOf(field)    == {i \in 1..Len(fixer.fixes) : fixer.fixes[i].field = field}
WarningsOf(field) == {i \in 1..Len(fixer.warnings) : fixer.warnings[i].field = field}

\* s is digits "." digits "." digits, each group non-empty.
SemverShape(s) ==
  \E i, j \in 1..Len(s) :
    /\ 1 < i /\ i + 1 < j /\ j < Len(s)
    /\ s[i] = "." /\ s[j] = "."
    /\ \A k \in (1..Len(s)) \ {i, j} : s[k] \in Digits

\* The settings the validator is specified to require.
ValidFields(d) ==
  /\ d.platform.present /\ d.global.present
  /\ d.platform.name.t = "string" /\ d.platform.name.s # <<>>
  /\ d.platform.version.t = "string" /\ SemverShape(d.platform.version.s)
  /\ d.platform.environment \in Environments
  /\ d.global.enabled.t = "boolean"
  /\ d.global.timezone.t = "string" /\ d.global.timezone.s # <<>>
  /\ d.authentication.present =>
       /\ d.authentication.sessionTimeout.t = "number"
       /\ d.authentication.sessionTimeout.n >= 60
       /\ d.authentication.maxLoginAttempts.t = "number"
       /\ d.authentication.maxLoginAttempts.n \in 1..10
  /\ d.api.present =>
       /\ d.api.baseUrl.t = "string" /\ ParseURL(d.api.baseUrl.s).ok
       /\ d.api.timeout.t = "number" /\ d.api.timeout.n >= 1000
  /\ d.logging.present =>
       /\ d.logging.level.t = "string"
       /\ d.logging.level.s \in {S_debug, S_info, S_warn, S_error}

\* An already-correct production configuration.
CorrectProduction(d) ==
  /\ ValidFields(d)
  /\ d.platform.environment = Str(S_production)
  /\ d.api.baseUrl # Str(S_placeholder)
  /\ ~includesStar(d.security.allowedOrigins)
  /\ d.security.enableSSL = Bool(TRUE)
  /\ d.security.enableHSTS = Bool(TRUE)
  /\ d.database.enableLogging = Bool(FALSE)
  /\ d.performance.caching.enabled # Bool(FALSE)
  /\ d.performance.compression.enabled # Bool(FALSE)

(***************************************************************************)
(* Properties                                                              *)
(***************************************************************************)

\* C1: under --validate-only the orchestrator's exit code is 0 exactly when the
\* validator's exit code is 0, and 1 when the validator exits non-zero.
C1_ValidateOnlyExitReflectsValidation ==
  (pc = "done" /\ skipFix /\ validateCode # -1) =>
     (exitCode = IF validateCode = 0 THEN 0 ELSE 1)

\* C2: on an already-correct production configuration the first validation
\* passes, the auto-fixer records no fix and never writes the file, and the
\* second validation passes.
C2_CorrectProductionIsFixedPoint ==
  (Parsed0 /\ CorrectProduction(doc0)) =>
     /\ validateCode \in {-1, 0}
     /\ Len(fixer.fixes) = 0
     /\ writes = 0
     /\ file = file0
     /\ revalidateCode \in {-1, 0}
C2_Witness ==
  /\ Parsed0 /\ CorrectProduction(doc0)
  /\ pc = "done" /\ validateCode = 0 /\ fixCode = 0 /\ revalidateCode = 0
  /\ doc0.performance.caching.enabled = Undefined

\* C3: a document without the platform section or without the global section
\* fails validation, with the message that lists exactly the missing sections.
C3_MissingSectionsNamed ==
  (Validated /\ (~vdoc.platform.present \/ ~vdoc.global.present)) =>
     /\ validation.code = 1
     /\ validation.message = "Missing required sections"
     /\ includes(validation.names, "platform") <=> ~vdoc.platform.present
     /\ includes(validation.names, "global") <=> ~vdoc.global.present
C3_Witness ==
  /\ Validated /\ vdoc.platform.present /\ ~vdoc.global.present
  /\ validation = Failed("Missing required sections", <<"global">>)

\* C4: once the earlier checks have passed, the version check rejects
\* platform.version exactly when its text is not digits.digits.digits from
\* end to end; a rejected version fails the validation.
VersionMessage == "Platform version must follow semantic versioning (e.g., 1.0.0)"
VersionCheckReached ==
  /\ Validated /\ vdoc.platform.present /\ vdoc.global.present
  /\ Truthy(vdoc.platform.name) /\ Truthy(vdoc.platform.version)
  /\ Truthy(vdoc.platform.environment)
C4_VersionShape ==
  VersionCheckReached =>
     /\ (validation.message = VersionMessage)
          <=> ~SemverShape(JSString(vdoc.platform.version))
     /\ ~SemverShape(JSString(vdoc.platform.version)) => validation.code = 1
     /\ vdoc.platform.version = Str(<<"1", ".", "2", ".", "3">>)
          => validation.message # VersionMessage
     /\ vdoc.platform.version = Str(<<"1", ".", "2">>) => validation.code = 1
C4_Witness ==
  /\ VersionCheckReached
  /\ vdoc.platform.version = Str(<<"1", ".", "2", ".", "3">>)
  /\ validation.code = 0

\* C5: once the earlier checks have passed, the environment check rejects
\* platform.environment exactly when it is not "production", "staging" or
\* "development"; a rejected environment fails the validation.
C5_EnvironmentValues ==
  (VersionCheckReached /\ SemverShape(JSString(vdoc.platform.version))) =>
     /\ (validation.message = "Invalid environment")
          <=> vdoc.platform.environment \notin Environments
     /\ vdoc.platform.environment \notin Environments => validation.code = 1
     /\ vdoc.platform.environment = Str(S_production)
          => validation.message # "Invalid environment"
C5_Witness ==
  /\ VersionCheckReached
  /\ vdoc.platform.environment = Str(S_prod)
  /\ validation = Failed("Invalid environment", <<S_prod>>)

\* C6: on a production configuration with corsEnabled = true and "*" among
\* allowedOrigins, the non-interactive auto-fixer leaves allowedOrigins as it
\* was (in memory and on disk), records no fix for it and exactly one warning.
WildcardProduction(d) ==
  /\ d.platform.environment = Str(S_production)
  /\ d.security.corsEnabled = Bool(TRUE)
  /\ d.security.allowedOrigins.t = "array"
  /\ includes(d.security.allowedOrigins.a, S_star)
C6_WildcardLeftWithWarning ==
  (Parsed0 /\ WildcardProduction(doc0) /\ ~interactive /\ FixerAt(AfterCors)) =>
     /\ fixer.config.security.allowedOrigins = doc0.security.allowedOrigins
     /\ file.doc.security.allowedOrigins = doc0.security.allowedOrigins
     /\ FixesOf("security.allowedOrigins") = {}
     /\ Cardinality(WarningsOf("security.allowedOrigins")) = 1
C6_Witness ==
  /\ Parsed0 /\ WildcardProduction(doc0) /\ ~interactive
  /\ fpc = "idle" /\ fixCode = 1 /\ writes = 1
  /\ doc0.security.allowedOrigins = Arr(<<S_a_https, S_star>>)
  /\ Len(fixer.warnings) = 1

\* C7: on a development configuration with database.enableLogging = false the
\* auto-fixer sets it to true and records the fix from false to true.
C7_DevelopmentEnablesDbLogging ==
  (/\ Parsed0
   /\ doc0.platform.environment = Str(S_development)
   /\ doc0.database.enableLogging = Bool(FALSE)
   /\ FixerAt(AfterEnv)) =>
     /\ fixer.config.database.enableLogging = Bool(TRUE)
     /\ \E i \in FixesOf("database.enableLogging") :
          fixer.fixes[i].from = Bool(FALSE) /\ fixer.fixes[i].to = Bool(TRUE)
C7_Witness ==
  /\ Parsed0
  /\ doc0.platform.environment = Str(S_development)
  /\ doc0.database.enableLogging = Bool(FALSE)
  /\ fpc = "fixProductionSecurity"
  /\ fixer.config.database.enableLogging = Bool(TRUE)

\* C8: with the authentication section present, a sessionTimeout below 60
\* (0 included) or a maxLoginAttempts outside 1..10 (0 included) fails the
\* validation.
C8_AuthenticationRanges ==
  (/\ Validated /\ vdoc.authentication.present
   /\ \/ /\ vdoc.authentication.sessionTimeout.t = "number"
         /\ vdoc.authentication.sessionTimeout.n < 60
      \/ /\ vdoc.authentication.maxLoginAttempts.t = "number"
         /\ vdoc.authentication.maxLoginAttempts.n \notin 1..10) =>
     validation.code = 1

\* C9: with the api section present, a timeout below 1000 (0 included) or a
\* baseUrl that does not parse as a URL fails the validation.
C9_ApiChecks ==
  (/\ Validated /\ vdoc.api.present
   /\ \/ /\ vdoc.api.timeout.t = "number"
         /\ vdoc.api.timeout.n < 1000
      \/ /\ vdoc.api.baseUrl.t = "string"
         /\ ~ParseURL(vdoc.api.baseUrl.s).ok) =>
     validation.code = 1

\* C10: after the rules have run on a production configuration, the
\* configuration in memory has enableSSL = true, enableHSTS = true and
\* database.enableLogging = false.
C10_ProductionForced ==
  (/\ Parsed0 /\ doc0.platform.environment = Str(S_production)
   /\ FixerAt(AfterRules)) =>
     /\ fixer.config.security.enableSSL = Bool(TRUE)
     /\ fixer.config.security.enableHSTS = Bool(TRUE)
     /\ fixer.config.database.enableLogging = Bool(FALSE)

\* C11: after the rules have run on a development configuration, the
\* configuration in memory has database.enableLogging = true and
\* logging.level = "debug", whatever the two fields held before.
C11_DevelopmentForced ==
  (/\ Parsed0 /\ doc0.platform.environment = Str(S_development)
   /\ FixerAt(AfterRules)) =>
     /\ fixer.config.database.enableLogging = Bool(TRUE)
     /\ fixer.config.logging.level = Str(S_debug)

\* The auto-fixer has gone through optimizePerformanceSettings.
AfterPerf == AfterRules \cup {"fixLoggingSettings"}

\* C12: in every environment, once optimizePerformanceSettings has run, a
\* performance flag (caching.enabled, compression.enabled) that was false is
\* true and has one fix from false to true; a flag that was true or absent is
\* as it was and has no fix.
C12_PerformanceFlags ==
  (Parsed0 /\ FixerAt(AfterPerf)) =>
     /\ IF doc0.performance.caching.enabled = Bool(FALSE)
        THEN /\ fixer.config.performance.caching.enabled = Bool(TRUE)
             /\ Cardinality(FixesOf("performance.caching.enabled")) = 1
             /\ \A i \in FixesOf("performance.caching.enabled") :
                  fixer.fixes[i].from = Bool(FALSE) /\ fixer.fixes[i].to = Bool(TRUE)
        ELSE /\ fixer.config.performance.caching.enabled =
                  doc0.performance.caching.enabled
             /\ FixesOf("performance.caching.enabled") = {}
     /\ IF doc0.performance.compression.enabled = Bool(FALSE)
        THEN /\ fixer.config.performance.compression.enabled = Bool(TRUE)
             /\ Cardinality(FixesOf("performance.compression.enabled")) = 1
             /\ \A i \in FixesOf("performance.compression.enabled") :
                  fixer.fixes[i].from = Bool(FALSE) /\ fixer.fixes[i].to = Bool(TRUE)
        ELSE /\ fixer.config.performance.compression.enabled =
                  doc0.performance.compression.enabled
             /\ FixesOf("performance.compression.enabled") = {}
C12_Witness ==
  /\ Parsed0
  /\ doc0.platform.environment = Str(S_staging)
  /\ doc0.performance.caching.enabled = Bool(FALSE)
  /\ doc0.performance.compression.enabled = Undefined
  /\ fpc = "fixLoggingSettings"
  /\ fixer.config.performance.caching.enabled = Bool(TRUE)
  /\ fixer.config.performance.compression.enabled = Undefined
  /\ Len(fixer.fixes) = 1

\* analyzeAndFix in non-interactive mode (source lines 76-107): the sections are
\* ensured and the rules run in their order; no prompt is answered.
analyzeAndFix(config) ==
  optimizePerformanceSettings(
    fixProductionSecurity(
      fixEnvironmentSettings(
        fixWildcardCors(
          fixPlaceholderApiUrl(ConfigAutoFix(ensureSections(config)),
                               FALSE, <<>>, <<>>),
          FALSE, <<>>))))

\* C13: once a non-interactive run of the auto-fixer has saved its
\* configuration, a second non-interactive run on the saved file records no fix
\* and ends with a document equal to the saved one.  (The first conjunct ties
\* analyzeAndFix to the steps of the run: it is what they compute.)
C13_Idempotent ==
  /\ (~interactive /\ fpc = "saveConfig" /\ file.exists /\ file.parses) =>
        fixer = analyzeAndFix(file.doc)
  /\ (~interactive /\ writes > 0) =>
        /\ analyzeAndFix(file.doc).fixes = <<>>
        /\ analyzeAndFix(file.doc).config = file.doc
C13_Witness ==
  /\ ~interactive
  /\ writes = 1
  /\ fpc = "exit1"
  /\ Len(fixer.fixes) >= 2
  /\ file.doc = fixer.config
  /\ file # file0
  /\ doc0.platform.environment = Str(S_development)

\* The five rules of analyzeAndFix (source lines 91-103), by their place in its
\* order, and one rule applied in non-interactive mode.
Rules == 1..5
applyRule(r, self) ==
  CASE r = 1 -> fixPlaceholderApiUrl(self, FALSE, <<>>, <<>>)
    [] r = 2 -> fixWildcardCors(self, FALSE, <<>>)
    [] r = 3 -> fixEnvironmentSettings(self)
    [] r = 4 -> fixProductionSecurity(self)
    [] r = 5 -> optimizePerformanceSettings(self)

\* The rules applied in the order given.
RECURSIVE applyOrder(_, _)
applyOrder(order, self) ==
  IF order = <<>> THEN self
  ELSE applyOrder(Tail(order), applyRule(Head(order), self))

\* Every order of the five rules.
Orders == {p \in [Rules -> Rules] : \A r \in Rules : \E i \in Rules : p[i] = r}

\* The fields of the configuration that rule r's code reads on self, in
\* non-interactive mode, following the short-circuit of its conditions
\* (source lines 110, 153-159, 209-228, 247-277, 296-308).
readsOf(r, self) ==
  LET c == self.config
  IN  CASE r = 1 -> {"api.baseUrl"}
        [] r = 2 ->
             {"security.corsEnabled"}
             \cup (IF Truthy(c.security.corsEnabled)
                   THEN {"security.allowedOrigins"} ELSE {})
             \cup (IF wildcardCorsDetected(c.security)
                   THEN {"platform.environment"} ELSE {})
        [] r = 3 ->
             {"platform.environment"}
             \cup (IF c.platform.environment = Str(S_development)
                   THEN {"database.enableLogging", "logging.level"} ELSE {})
        [] r = 4 ->
             {"platform.environment"}
             \cup (IF c.platform.environment = Str(S_production)
                   THEN {"security.enableSSL", "security.enableHSTS",
                         "database.enableLogging"}
                   ELSE {})
        [] r = 5 -> {"performance.caching.enabled",
                     "performance.compression.enabled"}

\* The fields rule r assigns on self: those of the fixes it records.
writesOf(r, self) ==
  {applyRule(r, self).fixes[i].field :
     i \in (Len(self.fixes) + 1)..Len(applyRule(r, self).fixes)}

\* The fields a rule reads, and writes, on some configuration.
ReadsOfRule ==
  [r \in Rules |-> UNION {readsOf(r, ConfigAutoFix(ensureSections(d))) : d \in Docs}]
WritesOfRule ==
  [r \in Rules |-> UNION {writesOf(r, ConfigAutoFix(ensureSections(d))) : d \in Docs}]

Range(q) == {q[i] : i \in 1..Len(q)}

\* At the end of the rules of a non-interactive run: every order of the rules,
\* applied to the configuration the run started from, gives the run's
\* configuration, its set of fixes and its set of warnings.
OrderIndependent ==
  (~interactive /\ fpc = "saveConfig") =>
     LET base     == ConfigAutoFix(ensureSections(doc0))
         fixes    == Range(fixer.fixes)
         warnings == Range(fixer.warnings)
     IN  \A p \in Orders :
           LET s == applyOrder(p, base)
           IN  /\ s.config = fixer.config
               /\ Range(s.fixes) = fixes
               /\ Range(s.warnings) = warnings

\* C14 (as stated): the rules give the same configuration, fixes and warnings
\* in any order, and no rule reads a field that another rule writes.
C14_Independent ==
  /\ OrderIndependent
  /\ \A r1, r2 \in Rules :
       r1 # r2 => ReadsOfRule[r1] \cap WritesOfRule[r2] = {}

\* C14 (amended): the rules give the same configuration, fixes and warnings in
\* any order, and in any one run no rule reads a field that another rule
\* writes in that run (fixEnvironmentSettings and fixProductionSecurity share
\* database.enableLogging, the one in development, the other in production).
C14_IndependentInRun ==
  /\ OrderIndependent
  /\ (~interactive /\ fpc = "saveConfig") =>
        LET base == ConfigAutoFix(ensureSections(doc0))
        IN  \A r1, r2 \in Rules :
              r1 # r2 => readsOf(r1, base) \cap writesOf(r2, base) = {}
C14_Witness ==
  /\ ~interactive /\ fpc = "saveConfig"
  /\ doc0.platform.environment = Str(S_production)
  /\ FixesOf("security.enableSSL") # {}
  /\ FixesOf("database.enableLogging") # {}
  /\ WarningsOf("security.allowedOrigins") # {}

\* The value of the field a fix entry names.
Get(config, field) ==
  CASE field = "api.baseUrl"                     -> config.api.baseUrl
    [] field = "security.allowedOrigins"         -> config.security.allowedOrigins
    [] field = "security.enableSSL"              -> config.security.enableSSL
    [] field = "security.enableHSTS"             -> config.security.enableHSTS
    [] field = "database.enableLogging"          -> config.database.enableLogging
    [] field = "logging.level"                   -> config.logging.level
    [] field = "performance.caching.enabled"     -> config.performance.caching.enabled
    [] field = "performance.compression.enabled" -> config.performance.compression.enabled

\* C15: every fix entry a rule records is an accurate before/after record: its
\* `from` is the value the field held before the rule ran and its `to` the
\* value it holds after, the wildcard-CORS replacement included.
C15_FixesAccurate ==
  [][\A i \in (Len(fixer.fixes) + 1)..Len(fixer'.fixes) :
       /\ fixer'.fixes[i].from = Get(fixer.config, fixer'.fixes[i].field)
       /\ fixer'.fixes[i].to = Get(fixer'.config, fixer'.fixes[i].field)]_vars

\* C16: the auto-fixer writes the configuration file only when the run recorded
\* at least one fix and, in interactive mode, the save question was put and
\* answered 'y' (compared as the code does, after toLowerCase); otherwise the
\* file is as the run found it, whatever was changed in memory.
C16_WrittenOnlyWhenSaved ==
  /\ writes <= 1
  /\ writes > 0 =>
       /\ Len(fixer.fixes) > 0
       /\ interactive => (saveAnswer.asked /\ toLowerCase(saveAnswer.answer) = S_y)
       /\ file = [exists |-> TRUE, parses |-> TRUE, doc |-> fixer.config]
  /\ writes = 0 => file = file0
C16_Witness ==
  /\ interactive
  /\ fpc = "exit1"
  /\ Len(fixer.fixes) > 0
  /\ saveAnswer = [asked |-> TRUE, answer |-> <<"n">>]
  /\ writes = 0
  /\ file = file0
  /\ fixer.config # doc0
  /\ doc0.database.present = FALSE

\* C17: when the orchestrator is given --no-interactive, the auto-fixer it
\* starts runs with interactive = false and puts no question, in the
\* placeholder rule, the wildcard-CORS rule and the save step alike.
C17_NoInteractiveNeverPrompts ==
  /\ (noInteractive /\ (fpc # "idle" \/ fixCode # -1)) => ~interactive
  /\ (~interactive /\ (fpc # "idle" \/ fixCode # -1)) =>
        fixer.prompts = 0 /\ ~saveAnswer.asked
C17_Witness ==
  /\ noInteractive
  /\ fpc = "exit1"
  /\ doc0.api.baseUrl = Str(S_placeholder)
  /\ WarningsOf("api.baseUrl") # {}
  /\ Len(fixer.fixes) > 0
  /\ writes = 1
  /\ fixer.prompts = 0

\* The run of the auto-fixer threw: loadConfig found no JSON document, or
\* saveConfig went to write the file and the write failed.
RunFailed ==
  \/ ~Parsed0
  \/ savesConfig(fixer, interactive, saveAnswer.answer) /\ writes = 0

\* C18: the auto-fixer exits 0 (run() resolves true) whenever its run completed,
\* applied and saved fixes included, and exits 1 only when the run failed.
C18_ExitReflectsSuccess ==
  fixCode # -1 => (fixCode = 0 <=> ~RunFailed)

\* q is an initial part of r.
IsPrefix(q, r) == Len(q) <= Len(r) /\ \A i \in 1..Len(q) : q[i] = r[i]

\* C19: the orchestrator's children run one after another, each started only
\* once the one before has closed: with --validate-only the children are
\* [validator] and the auto-fixer never starts; otherwise they are [validator,
\* auto-fixer, validator], whatever the exit codes of the first two.
C19_StepSequence ==
  /\ skipFix => (IsPrefix(steps, <<VALIDATOR>>) /\ fpc = "idle" /\ fixCode = -1)
  /\ ~skipFix => IsPrefix(steps, <<VALIDATOR, AUTOFIX, VALIDATOR>>)
  /\ (pc = "done" /\ ~spawnFailed) =>
        steps = IF skipFix THEN <<VALIDATOR>>
                ELSE <<VALIDATOR, AUTOFIX, VALIDATOR>>
  /\ Len(steps) >= 1 => validateCode # -1
  /\ fpc # "idle" => (steps = <<VALIDATOR, AUTOFIX>> /\ pc = "fixing")
  /\ Len(steps) = 3 => (fixCode # -1 /\ fpc = "idle" /\ revalidateCode # -1)
C19_Witness ==
  /\ ~skipFix
  /\ pc = "done"
  /\ steps = <<VALIDATOR, AUTOFIX, VALIDATOR>>
  /\ validateCode = 0 /\ fixCode = 1 /\ revalidateCode = 0

\* C20: in full mode the orchestrator's exit code is 0 when the re-validation
\* exits 0 and 1 otherwise, whatever the first validation and the auto-fixer
\* returned.
C20_FullModeExit ==
  (pc = "done" /\ ~skipFix /\ revalidateCode # -1) =>
     exitCode = IF revalidateCode = 0 THEN 0 ELSE 1
C20_Witness ==
  /\ pc = "done" /\ ~skipFix
  /\ validateCode = 1 /\ fixCode = 1 /\ revalidateCode = 0
  /\ exitCode = 0

\* C21: when the configuration file is there but holds no parseable JSON, the
\* validator exits 1 with the "Invalid JSON" report, and the auto-fixer exits 1
\* having applied no rule, recorded no fix and written nothing.
C21_MalformedJson ==
  (file0.exists /\ ~file0.parses) =>
     /\ validateCode # -1 =>
          (validateCode = 1 /\ validation.message = "Invalid JSON")
     /\ revalidateCode # -1 => revalidateCode = 1
     /\ fixCode # -1 => fixCode = 1
     /\ fpc \in {"idle", "load", "exit1"}
     /\ fixer.fixes = <<>> /\ fixer.warnings = <<>>
     /\ writes = 0 /\ file = file0
C21_Witness ==
  /\ file0.exists /\ ~file0.parses
  /\ validateCode = 1 /\ fixCode = 1 /\ revalidateCode = 1
  /\ pc = "done" /\ exitCode = 1
  /\ file = file0

\* C22: a file-system error of the auto-fixer, in writing the fixed
\* configuration or in creating the log directory, never sends run() into its
\* catch branch.
C22_FileSystemErrorsNotFatal ==
  (runLog.mkdirFailed \/ runLog.writeFailed) => ~runLog.caught

\* o parses as a URL whose scheme is http or https.
HttpOrigin(o) ==
  ParseURL(o).ok /\ ParseURL(o).protocol \in {S_http \o <<":">>, S_https \o <<":">>}

\* C23: the step of the wildcard-CORS rule changes security.allowedOrigins only
\* in interactive mode in production, and only to a non-empty list of entries
\* that each parse as an http or https URL (none of them "*"), recording one
\* fix; the list is what is left of the entries of the answer once the invalid
\* ones are dropped, and when the answer is empty or has no valid entry the
\* field is unchanged and no fix is recorded.
C23_WildcardReplacement ==
  [][fpc = "fixWildcardCors" =>
       LET old == fixer.config.security.allowedOrigins
           new == fixer'.config.security.allowedOrigins
       IN  /\ new # old =>
                /\ interactive
                /\ fixer.config.platform.environment = Str(S_production)
                /\ new.t = "array" /\ Len(new.a) > 0
                /\ \A i \in 1..Len(new.a) : HttpOrigin(new.a[i])
                /\ ~includes(new.a, S_star)
           /\ (interactive /\ wildcardCorsDetected(fixer.config.security)
               /\ fixer.config.platform.environment = Str(S_production)) =>
                /\ ruleAnswers'.origins.asked
                /\LET entries ==
                        Range(trimmedNonEmpty(split(ruleAnswers'.origins.answer)))
                      valid == {o \in entries : HttpOrigin(o)}
                  IN  IF valid = {}
                      THEN new = old /\ fixer'.fixes = fixer.fixes
                      ELSE /\ new.t = "array" /\ Range(new.a) = valid
                           /\ Len(fixer'.fixes) = Len(fixer.fixes) + 1
                           /\ fixer'.fixes[Len(fixer'.fixes)].field =
                                "security.allowedOrigins"
                           /\ fixer'.fixes[Len(fixer'.fixes)].to = new
           /\ new = old => fixer'.fixes = fixer.fixes]_vars
C23_Witness ==
  /\ interactive
  /\ fpc = "fixEnvironmentSettings"
  /\ doc0.security.allowedOrigins = Arr(<<S_a_https, S_star>>)
  /\ fixer.config.security.allowedOrigins = Arr(<<S_b_http>>)
  /\ FixesOf("security.allowedOrigins") # {}

C25_ResolvedMeansClean ==
  (/\ pc = "done" /\ ~skipFix /\ exitCode = 0
   /\ noInteractive /\ ~runLog.caught /\ ~runLog.mkdirFailed) =>
     /\ analyzeAndFix(file.doc).fixes = <<>>
     /\ analyzeAndFix(file.doc).warnings = <<>>

\* C26: when a configuration path is given on the orchestrator's command line,
\* its validation steps validate that file and its auto-fix step works on that
\* file.
C26_CustomPath ==
  configArg # NoPath =>
     /\ validateCode # -1 => validatorConfigPath(Tail(validateArgs)) = configArg
     /\ (fpc # "idle" \/ fixCode # -1) =>
          fixerConfigPath(Tail(fixArgs(noInteractive))) = configArg

\* The validator's checks on the file f, in the order the claim gives them:
\* whether the check fails, and the message it then reports.
Check(fails, message) == [fails |-> fails, message |-> message]
ChecksInOrder(f) ==
  LET d == f.doc
  IN  << Check(~f.parses, "Invalid JSON"),
         Check(~(d.platform.present /\ d.global.present),
               "Missing required sections"),
         Check(~Truthy(d.platform.name) \/ ~Truthy(d.platform.version)
                 \/ ~Truthy(d.platform.environment),
               "Platform section is missing required fields"),
         Check(~SemverShape(JSString(d.platform.version)),
               "Platform version must follow semantic versioning (e.g., 1.0.0)"),
         Check(d.platform.environment \notin Environments, "Invalid environment"),
         Check(d.global.enabled.t # "boolean", "global.enabled must be a boolean"),
         Check(~Truthy(d.global.timezone), "global.timezone is required"),
         Check(authenticationError(d) # "", authenticationError(d)),
         Check(apiError(d) # "", apiError(d)),
         Check(loggingError(d) # "", loggingError(d)) >>

\* The checks of f that fail, by their place in the order.
Failing(f) ==
  LET checks == ChecksInOrder(f) IN {i \in 1..Len(checks) : checks[i].fails}
Least(S) == CHOOSE i \in S : \A j \in S : i <= j

\* C27: the validator reports the message of the first check that fails, in
\* the order JSON parse, required sections, platform fields present, version
\* format, environment value, global.enabled, global.timezone, authentication,
\* api, logging, and exits 1; it exits 0 only when no check fails.
C27_FirstFailingCheck ==
  (validateCode # -1 /\ validatedFile.exists) =>
     LET checks == ChecksInOrder(validatedFile)
         failing == {i \in 1..Len(checks) : checks[i].fails}
     IN  IF failing = {}
         THEN validation = Passed
         ELSE /\ validation.code = 1
              /\ validation.message = checks[Least(failing)].message
C27_Witness ==
  /\ validateCode = 1 /\ validatedFile.exists
  /\ Failing(validatedFile) = {8, 9, 10}
  /\ validation.message = "sessionTimeout must be at least 60 seconds"

\* C28: when the configuration the auto-fixer loaded passes the validator, the
\* document it saves passes the validator too, in either mode and whatever the
\* answers.
C28_FixPreservesValidity ==
  (Parsed0 /\ validateConfiguration(file0).code = 0 /\ writes > 0) =>
     validateConfiguration(file).code = 0
C28_Witness ==
  /\ Parsed0 /\ validateCode = 0
  /\ interactive
  /\ doc0.api.baseUrl = Str(S_placeholder)
  /\ ruleAnswers.newUrl.answer = <<" ">> \o S_b_https \o <<" ">>
  /\ writes = 1
  /\ file.doc.api.baseUrl = Str(S_b_https)
  /\ revalidateCode = 0

\* The sections of the document other than performance.
PlainSections == {"platform", "global", "authentication", "api", "logging",
                  "security", "database"}

\* C29: once the rules of a non-interactive run have run on a configuration
\* whose platform.environment is neither "development" nor "production", every
\* section the file held, apart from the two performance flags, is as it was
\* in the file, and no wildcard-CORS warning is recorded.
C29_OtherEnvironmentsFrame ==
  (/\ Parsed0 /\ ~interactive /\ FixerAt(AfterRules)
   /\ doc0.platform.environment \notin {Str(S_development), Str(S_production)}) =>
     /\ \A sec \in PlainSections :
          doc0[sec].present => fixer.config[sec] = doc0[sec]
     /\ \A i \in 1..Len(fixer.fixes) :
          fixer.fixes[i].field \in {"performance.caching.enabled",
                                    "performance.compression.enabled"}
     /\ WarningsOf("security.allowedOrigins") = {}
C29_Witness ==
  /\ Parsed0 /\ ~interactive /\ fpc = "saveConfig"
  /\ doc0.platform.environment = Str(S_staging)
  /\ doc0.security.allowedOrigins = Arr(<<S_star>>)
  /\ doc0.security.enableSSL = Bool(FALSE)
  /\ doc0.database.enableLogging = Bool(TRUE)
  /\ fixer.fixes = <<>> /\ fixer.warnings = <<>>

\* C30: provided every child closes or fails to start and every question is
\* answered, the orchestrator ends, with exit code 0 or 1; a child that cannot
\* be spawned makes it end with exit code 1, and no further child is started.
C30_Terminates ==
  /\ <>[](pc = "done" /\ exitCode \in {0, 1})
  /\ [](spawnFailed => (pc = "done" /\ exitCode = 1 /\ fpc = "idle"))
  /\ [][spawnFailed => steps' = steps]_vars
C30_Witness ==
  /\ ~skipFix
  /\ spawnFailed
  /\ steps = <<VALIDATOR>>
  /\ pc = "done" /\ exitCode = 1
  /\ fixCode = -1 /\ revalidateCode = -1

=============================================================================
